---- MODULE Spec2Model ----
(***************************************************************************)
(* example/keras/keras_imagenet_resnet50.py: the ResNet-50 training script *)
(* run as NumWorkers processes (ranks 0 .. NumWorkers-1), one copy of the  *)
(* script per rank.  Each rank has its own file system view (files), its   *)
(* own model and its own callback list; the ranks meet in the collectives  *)
(* of the training library (broadcast, push_pull), which are modelled as   *)
(* joint steps taken when every rank has arrived.                          *)
(*                                                                         *)
(* Epoch numbers held by the learning-rate callbacks are stored in units   *)
(* of 1/WarmupDen epoch, because --warmup-epochs is a float.               *)
(***************************************************************************)
EXTENDS Integers, Sequences, FiniteSets, TLC

VARIABLES
    args,               \* parsed command line: [epochs, warmup_epochs]
    files,              \* files[w]: epochs e for which checkpoint_format.format(epoch=e) exists on w
    pc,                 \* pc[w]: position of rank w in the script
    scanned_epoch,      \* scanned_epoch[w]: resume_from_epoch as w computed it from its own files
    resume_from_epoch,  \* resume_from_epoch[w]
    initial_epoch,      \* initial_epoch[w]: the initial_epoch w passed to fit_generator
    model,              \* model[w]: model and optimizer state of rank w
    callbacks,          \* callbacks[w]: the callback list of rank w
    epoch,              \* epoch[w]: epoch counter of fit_generator
    batch,              \* batch[w]: step counter inside the epoch
    lr,                 \* lr[w]: what the learning-rate callbacks did at the last batch begin
    observed,           \* observed[w]: logs seen by the metrics-consuming callbacks at the last epoch end
    written,            \* written[w]: checkpoint epochs rank w has written in this run
    broadcast_done      \* broadcast_done[w]: the initial variable broadcast has run on w

vars == <<args, files, pc, scanned_epoch, resume_from_epoch, initial_epoch, model,
          callbacks, epoch, batch, lr, observed, written, broadcast_done>>

----------------------------------------------------------------------------
\* Bounds of the model.
NumWorkers == 2
MaxEpochs == 2
MaxWarmupLR == 32
MaxMetric == 1
StepsPerEpoch == 1

\* Program constants.
WarmupDen == 2
DefaultEpochs == 90
DefaultWarmup == 5

Workers == 0 .. (NumWorkers - 1)
Metrics == 0 .. MaxMetric

\* bps.size()
Size == NumWorkers

\* An integer epoch number in the unit the callbacks' epochs are stored in.
E(n) == n * WarmupDen

RECURSIVE SumOver(_, _)
SumOver(f, S) ==
    IF S = {} THEN 0
    ELSE LET x == CHOOSE y \in S : TRUE IN f[x] + SumOver(f, S \ {x})

MaxOf(S) == CHOOSE x \in S : \A y \in S : y <= x

----------------------------------------------------------------------------
\* Model and optimizer state.  `steps' counts the gradient updates applied.
FreshModel(w) ==
    [weights |-> [src |-> "random", id |-> w],
     opt     |-> [src |-> "sgd", id |-> 0],
     steps   |-> 0]

\* bps.load_model(checkpoint_format.format(epoch=e)): weights and optimizer
\* state as saved.
LoadModel(e) ==
    [weights |-> [src |-> "checkpoint", id |-> e],
     opt     |-> [src |-> "checkpoint", id |-> e],
     steps   |-> 0]

----------------------------------------------------------------------------
\* The callbacks.  Every callback is a record of the same shape.
Callback(kind) ==
    [kind |-> kind, root_rank |-> 0, start_epoch |-> 0, has_end |-> FALSE,
     end_epoch |-> 0, multiplier |-> 0, staircase |-> FALSE]

BroadcastGlobalVariablesCallback(root) ==
    [Callback("BroadcastGlobalVariablesCallback") EXCEPT !.root_rank = root]

MetricAverageCallback == Callback("MetricAverageCallback")

\* Warmup: a schedule over [0, warmup_epochs), adjusted at every batch.
LearningRateWarmupCallback(warmup) ==
    [Callback("LearningRateWarmupCallback") EXCEPT
        !.start_epoch = 0, !.has_end = TRUE, !.end_epoch = warmup]

\* multiplier is in thousandths.
LearningRateScheduleCallback(start, hasEnd, end, mult) ==
    [Callback("LearningRateScheduleCallback") EXCEPT
        !.start_epoch = start, !.has_end = hasEnd, !.end_epoch = end,
        !.multiplier = mult, !.staircase = TRUE]

ModelCheckpoint == Callback("ModelCheckpoint")
TensorBoard == Callback("TensorBoard")

\* The list literal without its first entry: the initial broadcast forgotten.
BaseCallbacksNoBroadcast ==
    << MetricAverageCallback,
       LearningRateWarmupCallback(args.warmup_epochs),
       LearningRateScheduleCallback(args.warmup_epochs, TRUE, E(30), 1000),
       LearningRateScheduleCallback(E(30), TRUE, E(60), 100),
       LearningRateScheduleCallback(E(60), TRUE, E(80), 10),
       LearningRateScheduleCallback(E(80), FALSE, 0, 1) >>

\* The list literal of the script.
BaseCallbacks ==
    << BroadcastGlobalVariablesCallback(0),
       MetricAverageCallback,
       LearningRateWarmupCallback(args.warmup_epochs),
       LearningRateScheduleCallback(args.warmup_epochs, TRUE, E(30), 1000),
       LearningRateScheduleCallback(E(30), TRUE, E(60), 100),
       LearningRateScheduleCallback(E(60), TRUE, E(80), 10),
       LearningRateScheduleCallback(E(80), FALSE, 0, 1) >>

\* The append without its rank test: every rank checkpoints.
RankZeroCallbacksEveryRank(w) == << ModelCheckpoint, TensorBoard >>

\* The callbacks appended on the first worker only.
RankZeroCallbacks(w) ==
    IF w = 0 THEN << ModelCheckpoint, TensorBoard >> ELSE << >>

IsMetricAverage(cb) == cb.kind = "MetricAverageCallback"
IsNotMetricAverage(cb) == ~IsMetricAverage(cb)

\* The list with MetricAverageCallback appended last instead of second.
CallbackListAverageLast(w) ==
    SelectSeq(BaseCallbacks, IsNotMetricAverage) \o RankZeroCallbacks(w)
        \o SelectSeq(BaseCallbacks, IsMetricAverage)

\* callbacks = [...]; if bps.rank() == 0: callbacks.append(...) twice.
CallbackList(w) == BaseCallbacks \o RankZeroCallbacks(w)

IndexOf(cbs, kind) == { i \in DOMAIN cbs : cbs[i].kind = kind }

----------------------------------------------------------------------------
Init ==
    /\ args \in [epochs : 1 .. MaxEpochs, warmup_epochs : {0, E(DefaultWarmup)}]
    /\ files \in [Workers -> SUBSET (1 .. MaxEpochs)]
    /\ pc = [w \in Workers |-> "scan"]
    /\ scanned_epoch = [w \in Workers |-> 0]
    /\ resume_from_epoch = [w \in Workers |-> 0]
    /\ initial_epoch = [w \in Workers |-> 0]
    /\ model = [w \in Workers |-> FreshModel(w)]
    /\ callbacks = [w \in Workers |-> << >>]
    /\ epoch = [w \in Workers |-> 0]
    /\ batch = [w \in Workers |-> 0]
    /\ lr = [w \in Workers |-> [mult |-> 1000, by |-> {}]]
    /\ observed = [w \in Workers |-> {}]
    /\ written = [w \in Workers |-> {}]
    /\ broadcast_done = [w \in Workers |-> FALSE]

----------------------------------------------------------------------------
\* resume_from_epoch = next((try_epoch for try_epoch in range(epochs, 0, -1)
\*                           if os.path.exists(...)), 0)
RECURSIVE FirstCheckpoint(_, _)
FirstCheckpoint(w, try_epoch) ==
    IF try_epoch <= 0 THEN 0
    ELSE IF try_epoch \in files[w] THEN try_epoch
    ELSE FirstCheckpoint(w, try_epoch - 1)

ScanCheckpoints(w) ==
    /\ pc[w] = "scan"
    /\ resume_from_epoch' =
          [resume_from_epoch EXCEPT ![w] = FirstCheckpoint(w, args.epochs)]
    /\ scanned_epoch' =
          [scanned_epoch EXCEPT ![w] = FirstCheckpoint(w, args.epochs)]
    /\ pc' = [pc EXCEPT ![w] = "broadcast"]
    /\ UNCHANGED <<args, initial_epoch, files, model, callbacks, epoch, batch, lr, observed,
                   written, broadcast_done>>

\* bps.broadcast(value, root_rank): every rank receives root_rank's value.
BpsBroadcast(value, root_rank) == [w \in Workers |-> value[root_rank]]

\* The broadcast left out: every rank keeps what it found itself.
ResumeNotBroadcast == resume_from_epoch

\* resume_from_epoch = bps.broadcast(resume_from_epoch, 0, name='resume_from_epoch')
ResumeAfterBroadcast == BpsBroadcast(resume_from_epoch, 0)

BroadcastResume ==
    /\ \A w \in Workers : pc[w] = "broadcast"
    /\ resume_from_epoch' = ResumeAfterBroadcast
    /\ pc' = [w \in Workers |-> "build"]
    /\ UNCHANGED <<args, scanned_epoch, initial_epoch, files, model, callbacks, epoch, batch, lr, observed,
                   written, broadcast_done>>

\* if resume_from_epoch > 0 and bps.rank() == 0: load the checkpoint;
\* else: build and compile a fresh ResNet-50.
BuiltModel(w) ==
    IF resume_from_epoch[w] > 0 /\ w = 0
    THEN LoadModel(resume_from_epoch[w])
    ELSE FreshModel(w)

BuildModel(w) ==
    /\ pc[w] = "build"
    /\ model' = [model EXCEPT ![w] = BuiltModel(w)]
    /\ pc' = [pc EXCEPT ![w] = "callbacks"]
    /\ UNCHANGED <<args, scanned_epoch, initial_epoch, files, resume_from_epoch, callbacks, epoch, batch, lr,
                   observed, written, broadcast_done>>

AssembleCallbacks(w) ==
    /\ pc[w] = "callbacks"
    /\ callbacks' = [callbacks EXCEPT ![w] = CallbackList(w)]
    /\ pc' = [pc EXCEPT ![w] = "fit"]
    /\ UNCHANGED <<args, scanned_epoch, initial_epoch, files, resume_from_epoch, model, epoch, batch, lr,
                   observed, written, broadcast_done>>

----------------------------------------------------------------------------
\* model.fit_generator(..., callbacks=callbacks, initial_epoch=resume_from_epoch)

\* on_train_begin of BroadcastGlobalVariablesCallback(root): every global
\* variable (model and optimizer) is overwritten by root's.
BroadcastGlobalVariables(w, root) == model[root]

\* on_train_begin over the callback list of w, in list order.
RECURSIVE OnTrainBegin(_, _, _, _)
OnTrainBegin(w, cbs, i, st) ==
    IF i > Len(cbs) THEN st
    ELSE IF cbs[i].kind = "BroadcastGlobalVariablesCallback"
         THEN OnTrainBegin(w, cbs, i + 1,
                  [m |-> BroadcastGlobalVariables(w, cbs[i].root_rank), done |-> TRUE])
         ELSE OnTrainBegin(w, cbs, i + 1, st)

TrainBegin ==
    /\ \A w \in Workers : pc[w] = "fit"
    /\ LET after == [w \in Workers |->
                        OnTrainBegin(w, callbacks[w], 1,
                                     [m |-> model[w], done |-> broadcast_done[w]])]
       IN /\ model' = [w \in Workers |-> after[w].m]
          /\ broadcast_done' = [w \in Workers |-> after[w].done]
    /\ initial_epoch' = resume_from_epoch
    /\ epoch' = resume_from_epoch
    /\ pc' = [w \in Workers |-> "epoch_begin"]
    /\ UNCHANGED <<args, scanned_epoch, files, resume_from_epoch, callbacks, batch, lr,
                   observed, written>>

\* for epoch in range(initial_epoch, epochs): on_epoch_begin
EpochBegin(w) ==
    /\ pc[w] = "epoch_begin"
    /\ epoch[w] < args.epochs
    /\ batch' = [batch EXCEPT ![w] = 0]
    /\ pc' = [pc EXCEPT ![w] = "batch"]
    /\ UNCHANGED <<args, scanned_epoch, initial_epoch, files, resume_from_epoch, model, callbacks, epoch, lr,
                   observed, written, broadcast_done>>

\* A schedule callback adjusts epochs in [start_epoch, end_epoch).
Active(cb, e) ==
    /\ E(e) >= cb.start_epoch
    /\ (cb.has_end => E(e) < cb.end_epoch)

IsSchedule(cb) ==
    cb.kind \in {"LearningRateWarmupCallback", "LearningRateScheduleCallback"}

\* on_batch_begin: a staircase schedule adjusts at the first batch of an epoch,
\* the warmup at every batch.
Adjusts(cb, e, b) ==
    IsSchedule(cb) /\ Active(cb, e) /\ (cb.staircase => b = 0)

\* 1/size * (x * (size - 1) / warmup_epochs + 1), x = e + (b + 1)/steps, in thousandths.
WarmupMultiplier(cb, e, b) ==
    (1000 * ((e * StepsPerEpoch + b + 1) * WarmupDen * (Size - 1)
             + StepsPerEpoch * cb.end_epoch))
        \div (Size * StepsPerEpoch * cb.end_epoch)

MultiplierOf(cb, e, b) ==
    IF cb.kind = "LearningRateWarmupCallback" THEN WarmupMultiplier(cb, e, b)
    ELSE cb.multiplier

\* on_batch_begin over the callback list, in list order: the last callback that
\* adjusts decides the rate.
OnBatchBegin(w) ==
    LET cbs == callbacks[w]
        by == { i \in DOMAIN cbs : Adjusts(cbs[i], epoch[w], batch[w]) }
    IN  IF by = {} THEN [mult |-> lr[w].mult, by |-> {}]
        ELSE [mult |-> MultiplierOf(cbs[MaxOf(by)], epoch[w], batch[w]), by |-> by]

\* One training step: the gradients are push_pulled (a collective), every rank
\* applies the same averaged update.
TrainBatch ==
    /\ \A w \in Workers : pc[w] = "batch"
    /\ lr' = [w \in Workers |-> OnBatchBegin(w)]
    /\ model' = [w \in Workers |-> [model[w] EXCEPT !.steps = @ + 1]]
    /\ batch' = [w \in Workers |-> batch[w] + 1]
    /\ pc' = [w \in Workers |->
                IF batch[w] + 1 >= StepsPerEpoch THEN "epoch_end" ELSE "batch"]
    /\ UNCHANGED <<args, scanned_epoch, initial_epoch, files, resume_from_epoch, callbacks, epoch, observed,
                   written, broadcast_done>>

\* MetricAverageCallback.on_epoch_end: the metric is averaged over the ranks.
MetricAverage(raw) ==
    [num |-> SumOver(raw, Workers), den |-> Size, averaged |-> TRUE]

\* on_epoch_end over the callback list of w, in list order.
\* st = [logs, files, written, observed].
RECURSIVE OnEpochEnd(_, _, _, _, _)
OnEpochEnd(w, cbs, i, raw, st) ==
    IF i > Len(cbs) THEN st
    ELSE LET k == cbs[i].kind
             next ==
               IF k = "MetricAverageCallback"
               THEN [st EXCEPT !.logs = MetricAverage(raw)]
               ELSE IF k = "ModelCheckpoint"
               THEN [st EXCEPT !.files = @ \cup {epoch[w] + 1},
                               !.written = @ \cup {epoch[w] + 1},
                               !.observed = @ \cup {[cb |-> k, logs |-> st.logs]}]
               ELSE IF k = "TensorBoard"
               THEN [st EXCEPT !.observed = @ \cup {[cb |-> k, logs |-> st.logs]}]
               ELSE st
         IN  OnEpochEnd(w, cbs, i + 1, raw, next)

EpochEnd ==
    /\ \A w \in Workers : pc[w] = "epoch_end"
    /\ \E raw \in [Workers -> Metrics] :
          LET after == [w \in Workers |->
                           OnEpochEnd(w, callbacks[w], 1, raw,
                               [logs |-> [num |-> raw[w], den |-> 1, averaged |-> FALSE],
                                files |-> files[w],
                                written |-> written[w],
                                observed |-> {}])]
          IN /\ files' = [w \in Workers |-> after[w].files]
             /\ written' = [w \in Workers |-> after[w].written]
             /\ observed' = [w \in Workers |-> after[w].observed]
    /\ epoch' = [w \in Workers |-> epoch[w] + 1]
    /\ pc' = [w \in Workers |-> "epoch_begin"]
    /\ UNCHANGED <<args, scanned_epoch, initial_epoch, resume_from_epoch, model, callbacks, batch, lr,
                   broadcast_done>>

\* The epoch loop is over.
TrainEnd(w) ==
    /\ pc[w] = "epoch_begin"
    /\ epoch[w] >= args.epochs
    /\ pc' = [pc EXCEPT ![w] = "evaluate"]
    /\ UNCHANGED <<args, scanned_epoch, initial_epoch, files, resume_from_epoch, model, callbacks, epoch, batch,
                   lr, observed, written, broadcast_done>>

\* score = bps.push_pull(model.evaluate_generator(...)): a collective.
Evaluate ==
    /\ \A w \in Workers : pc[w] = "evaluate"
    /\ pc' = [w \in Workers |-> "done"]
    /\ UNCHANGED <<args, scanned_epoch, initial_epoch, files, resume_from_epoch, model, callbacks, epoch, batch,
                   lr, observed, written, broadcast_done>>

Next ==
    \/ \E w \in Workers : ScanCheckpoints(w)
    \/ BroadcastResume
    \/ \E w \in Workers : BuildModel(w)
    \/ \E w \in Workers : AssembleCallbacks(w)
    \/ TrainBegin
    \/ \E w \in Workers : EpochBegin(w)
    \/ TrainBatch
    \/ EpochEnd
    \/ \E w \in Workers : TrainEnd(w)
    \/ Evaluate

Spec == Init /\ [][Next]_vars

\* The default run (--epochs 90, no checkpoint yet) over the range of
\* --warmup-epochs.
InitLR ==
    /\ args \in [epochs : {DefaultEpochs}, warmup_epochs : 0 .. E(MaxWarmupLR)]
    /\ files = [w \in Workers |-> {}]
    /\ pc = [w \in Workers |-> "scan"]
    /\ scanned_epoch = [w \in Workers |-> 0]
    /\ resume_from_epoch = [w \in Workers |-> 0]
    /\ initial_epoch = [w \in Workers |-> 0]
    /\ model = [w \in Workers |-> FreshModel(w)]
    /\ callbacks = [w \in Workers |-> << >>]
    /\ epoch = [w \in Workers |-> 0]
    /\ batch = [w \in Workers |-> 0]
    /\ lr = [w \in Workers |-> [mult |-> 1000, by |-> {}]]
    /\ observed = [w \in Workers |-> {}]
    /\ written = [w \in Workers |-> {}]
    /\ broadcast_done = [w \in Workers |-> FALSE]

SpecLR == InitLR /\ [][Next]_vars

----------------------------------------------------------------------------
\* Properties.

\* Rank w has assembled its callback list (it is at or past fit_generator).
Assembled(w) == pc[w] \notin {"scan", "broadcast", "build", "callbacks"}

\* Rank w is inside epoch epoch[w] of the training loop.
InEpoch(w) == pc[w] \in {"batch", "epoch_end"}

\* C1: ModelCheckpoint and TensorBoard are in the assembled callback list of
\* rank 0 and of no other rank, and no rank other than 0 ever writes a
\* checkpoint file.
C1_CheckpointOnlyOnRankZero ==
    \A w \in Workers :
        /\ Assembled(w) =>
              /\ (IndexOf(callbacks[w], "ModelCheckpoint") # {}) <=> (w = 0)
              /\ (IndexOf(callbacks[w], "TensorBoard") # {}) <=> (w = 0)
        /\ (w # 0) => written[w] = {}

\* Rank 0 has written a checkpoint, and another rank has run the same epochs
\* to the end without writing any.
C1_Witness ==
    /\ written[0] # {}
    /\ \E w \in Workers :
          w # 0 /\ pc[w] = "done" /\ epoch[w] > initial_epoch[w] /\ written[w] = {}

\* C2: once the broadcast of resume_from_epoch has run, every rank holds the
\* value rank 0 computed from its own checkpoint files, whatever the other
\* ranks found, and every rank passes that value as initial_epoch.
C2_ResumeEpochFromRankZero ==
    \A w \in Workers :
        /\ pc[w] \notin {"scan", "broadcast"} =>
              resume_from_epoch[w] = scanned_epoch[0]
        /\ pc[w] \notin {"scan", "broadcast", "build", "callbacks", "fit"} =>
              initial_epoch[w] = scanned_epoch[0]

\* Training has started although another rank had found a different (later)
\* checkpoint than rank 0 did.
C2_Witness ==
    \E w \in Workers :
        /\ w # 0
        /\ scanned_epoch[w] > scanned_epoch[0]
        /\ scanned_epoch[0] > 0
        /\ pc[w] = "batch"

\* C3: BroadcastGlobalVariablesCallback(0) is first in every assembled callback
\* list; once it has run on a rank, that rank's weights and optimizer state
\* are rank 0's (the checkpoint rank 0 restored, or rank 0's random weights);
\* and no gradient step is applied on a rank before it has run.
C3_BroadcastBeforeTraining ==
    \A w \in Workers :
        /\ Assembled(w) =>
              /\ Len(callbacks[w]) >= 1
              /\ callbacks[w][1] = BroadcastGlobalVariablesCallback(0)
        /\ broadcast_done[w] =>
              /\ model[w] = model[0]
              /\ model[w].weights = BuiltModel(0).weights
              /\ model[w].opt = BuiltModel(0).opt
        /\ ~broadcast_done[w] => model[w].steps = 0

\* Rank 0 restored a checkpoint, another rank built a fresh model, and after
\* the broadcast both have trained on the restored state.
C3_Witness ==
    /\ resume_from_epoch[0] > 0
    /\ \E w \in Workers :
          /\ w # 0
          /\ broadcast_done[w]
          /\ model[w].weights.src = "checkpoint"
          /\ model[w].steps > 0

\* C4: in every assembled callback list MetricAverageCallback comes before
\* ModelCheckpoint and TensorBoard, and the logs those two see at an epoch
\* end are the metrics averaged over the ranks.
C4_MetricAverageFirst ==
    \A w \in Workers :
        /\ Assembled(w) =>
              /\ IndexOf(callbacks[w], "MetricAverageCallback") # {}
              /\ \A i \in IndexOf(callbacks[w], "MetricAverageCallback") :
                 \A j \in IndexOf(callbacks[w], "ModelCheckpoint")
                            \cup IndexOf(callbacks[w], "TensorBoard") : i < j
        /\ \A o \in observed[w] : o.logs.averaged /\ o.logs.den = Size

\* Both metrics-consuming callbacks of rank 0 have seen the logs of an epoch
\* in which the ranks' raw metrics differed.
C4_Witness ==
    /\ \E o \in observed[0] : o.cb = "ModelCheckpoint" /\ o.logs.num = 1
    /\ \E o \in observed[0] : o.cb = "TensorBoard" /\ o.logs.num = 1

\* The LearningRateScheduleCallback intervals of rank w that contain epoch e.
ScheduleIntervals(w, e) ==
    { i \in DOMAIN callbacks[w] :
        /\ callbacks[w][i].kind = "LearningRateScheduleCallback"
        /\ Active(callbacks[w][i], e) }

\* The multiplier (in thousandths) the schedule is meant to apply in epoch e.
ExpectedMultiplier(e) ==
    IF e < 30 THEN 1000 ELSE IF e < 60 THEN 100 ELSE IF e < 80 THEN 10 ELSE 1

\* Exactly one schedule interval contains a post-warmup epoch, with the
\* multiplier of the schedule.
C5_OneIntervalAfterWarmup ==
    \A w \in Workers :
        (InEpoch(w) /\ E(epoch[w]) >= args.warmup_epochs) =>
            /\ Cardinality(ScheduleIntervals(w, epoch[w])) = 1
            /\ \A i \in ScheduleIntervals(w, epoch[w]) :
                  callbacks[w][i].multiplier = ExpectedMultiplier(epoch[w])

\* C5: for every warmup_epochs, an epoch e >= warmup_epochs lies in exactly
\* one LearningRateScheduleCallback interval, with multiplier 1, 0.1, 0.01,
\* 0.001 by the 30/60/80 boundaries, and an epoch e < warmup_epochs lies in
\* no LearningRateScheduleCallback interval.
C5_ScheduleAfterWarmupOnly ==
    /\ C5_OneIntervalAfterWarmup
    /\ \A w \in Workers :
          (InEpoch(w) /\ E(epoch[w]) < args.warmup_epochs) =>
              ScheduleIntervals(w, epoch[w]) = {}

====
